---- MODULE Spec2Model ----
(***************************************************************************)
(* loglens: the incremental tail/watch engine.                             *)
(*   LogTailer  (src/src/tail.ts)    - initial window + polling driver     *)
(*   LogWatcher (src/src/watcher.ts) - change-notification driver          *)
(*   Dashboard  (src/src/cli.ts)     - owner of a LogWatcher               *)
(*   LogFilter  (src/src/filters.ts) - include / exclude patterns          *)
(* Text is a sequence of one-character strings, byte offsets are 0-based   *)
(* as in the source, sequences are 1-based.                                *)
(***************************************************************************)
EXTENDS Integers, Sequences, FiniteSets, TLC

\* ------------------------------------------------------------------ bounds
MaxWrites == 2          \* operations of the environment per run: the writer's
                        \* (append / truncate / unlink) and failing reads
LongLen   == 123        \* length of the long first line of the big initial file
MaxStops  == 2          \* stop() / close() calls per run
MaxClients == 1         \* WebSocket clients connected to a Dashboard
MaxCalls  == 2          \* addFile() / removeFile() calls per run
MaxRoundWrites == 1     \* writer operations per run of the round-trip runs
MaxFilterCalls == 2     \* shouldInclude() calls per run

\* ------------------------------------------------------- program constants
BytesPerLine   == 120   \* tail.ts:130  numLines * 120
DefaultLines   == 10    \* tail.ts:31   lines = 10

NL == "\n"
SP == " "

\* ------------------------------------------------------------ text helpers
Min(a, b) == IF a < b THEN a ELSE b
Max(a, b) == IF a > b THEN a ELSE b

\* s.slice(from, to) on 0-based offsets, to exclusive, clamped like JS
Slice(s, from, to) ==
  LET f == Max(0, Min(from, Len(s)))
      t == Max(f, Min(to, Len(s)))
  IN  SubSeq(s, f + 1, t)

\* the offsets (1-based) of the terminators of s, in increasing order
TerminatorsOf(s) ==
  LET at == {i \in 1..Len(s) : s[i] = NL}
  IN  [k \in 1..Cardinality(at) |->
         CHOOSE i \in at : Cardinality({j \in at : j < i}) = k - 1]

\* buffer.split('\n'): k terminators give k+1 pieces, the last possibly empty
SplitNL(s) ==
  LET t == TerminatorsOf(s)
      n == Len(t)
  IN  [k \in 1..(n + 1) |->
         SubSeq(s, (IF k = 1 THEN 0 ELSE t[k - 1]) + 1,
                   (IF k = n + 1 THEN Len(s) + 1 ELSE t[k]) - 1)]

\* line.trim() === ''  (the only whitespace of the modelled alphabet is SP;
\* a piece returned by split holds no NL)
TrimIsEmpty(line) == \A i \in 1..Len(line) : line[i] \in {SP, NL, "\t", "\r"}

\* the mutant of Truthy: every line counts as non-blank
TruthyAlways(line) == TRUE

\* if (line.trim()) / line.trim() !== ''
Truthy(line) == ~TrimIsEmpty(line)

\* lines.filter(line => line.trim() !== '') and the `if (line.trim())` guard
FilterLines(ls) == SelectSeq(ls, Truthy)

\* lines.pop(): everything but the last element
Front(ls) == SubSeq(ls, 1, Len(ls) - 1)
Last(ls)  == ls[Len(ls)]

\* lines.slice(-n): slice(-0) is slice(0), the whole array
SliceLast(ls, n) ==
  IF n = 0 \/ n >= Len(ls) THEN ls ELSE SubSeq(ls, Len(ls) - n + 1, Len(ls))

\* ------------------------------------------------ Map<string, number>
\* A JS Map keeps insertion order: a sequence of [k, v] entries, keys unique.
MapHas(m, k) == \E i \in 1..Len(m) : m[i].k = k
MapIndex(m, k) == CHOOSE i \in 1..Len(m) : m[i].k = k
MapGet(m, k) == m[MapIndex(m, k)].v
MapSet(m, k, v) ==
  IF MapHas(m, k) THEN [m EXCEPT ![MapIndex(m, k)].v = v]
  ELSE Append(m, [k |-> k, v |-> v])
MapDelete(m, k) ==
  IF MapHas(m, k)
  THEN SubSeq(m, 1, MapIndex(m, k) - 1) \o SubSeq(m, MapIndex(m, k) + 1, Len(m))
  ELSE m
\* this.filePositions.get(absolutePath) || 0
GetOrZero(m, k) == IF MapHas(m, k) THEN MapGet(m, k) ELSE 0

\* --------------------------------------------------------------- the world
Paths == {"f1", "f2"}

\* what a writer appends in one write: a whole line, a line's first piece
\* without terminator, a whitespace-only line
Pieces == { <<"x", NL>>, <<"x">>, <<SP, NL>> }

\* files longer than one line estimate: a line of LongLen characters, alone and
\* followed by a short line
LongLine == [i \in 1..LongLen |-> "a"] \o <<NL>>
LongFile == LongLine \o <<"b", NL>>

VARIABLES
  cmd,            \* "tail": the process drives a LogTailer; "watch": a LogWatcher;
                  \* "dashboard": a Dashboard, which creates a LogWatcher when started
  opts,           \* TailOptions / WatcherOptions of the run, and the files it names
  calls,          \* addFile() / removeFile() calls so far
  filter,         \* the LogFilter of the command: its patterns, each a RegExp
                  \* with its lastIndex
  verdicts,       \* every shouldInclude() call so far: line and answer (history)
  uncaught,       \* every 'error' emitted while the emitter had no listener, which
                  \* emit() throws out of the callback that emitted it (history)
  watcher,        \* LogWatcher.watcher !== null
  listeners,      \* the engine's emitter has its listeners (removeAllListeners)
  joined,         \* tailMultiple: `await Promise.all(promises)` has returned
  dashboard,      \* Dashboard: [watcher, wss, server] !== null, and clients.size
  stopCalls,      \* every stop() / close() called so far, in call order (history)
  polled,         \* the paths the latest poll tick examined, in order (history)
  disk,           \* path -> [exists, content]: the file system collaborator
  fsHist,         \* path -> what the writer has done to the file so far (history)
  writes,         \* writer operations so far
  files,          \* LogTailer.files: Map path -> position
  following,      \* LogTailer.following
  pollInterval,   \* LogTailer.pollInterval !== null
  timers,         \* the interval timers set by startFollowing and not cleared
  reg,            \* path -> progress of the tail() call on it
  filePositions,  \* LogWatcher.filePositions: Map path -> position
  watched,        \* LogWatcher.files
  pending,        \* path -> notifications chokidar has not delivered yet
  streams,        \* delta read streams in flight, in creation order
  events,         \* every event emitted so far, in emission order (history)
  reads,          \* every range handed to readNewContent, in call order (history)
  closed,         \* every delta stream that ended or failed (history)
  obs             \* path -> what the driver saw when it last examined the file (history)

vars == <<cmd, opts, calls, filter, verdicts, uncaught, watcher, listeners, joined, dashboard, stopCalls, polled, disk, fsHist, writes, files, following, pollInterval, timers,
          reg, filePositions, watched, pending, streams, events, reads, closed, obs>>

filterVars  == <<filter, verdicts>>
lifeVars    == <<watcher, listeners, joined, dashboard, stopCalls, polled>>
fsVars      == <<disk, fsHist, writes>>
tailerVars  == <<files, following, pollInterval, timers, reg>>
watcherVars == <<filePositions, watched>>

\* ------------------------------------------------------------------ events
\* TailEvent {file, line, lineNumber}; the watcher's line event has no number
LineEvent(p, line, n) ==
  [type |-> "line", file |-> p, line |-> line, lineNumber |-> n, code |-> "",
   position |-> -1]
\* emit('error', error): `file` is the file the failing operation was about
ErrorEvent(p, code) ==
  [type |-> "error", file |-> p, line |-> <<>>, lineNumber |-> 0, code |-> code,
   position |-> -1]
\* 'fileRemoved', and the watcher's FileChange {file, type, position}
OtherEvent(type, p, position) ==
  [type |-> type, file |-> p, line |-> <<>>, lineNumber |-> 0, code |-> "",
   position |-> position]

\* one 'line' event per line, numbered from `first` (0 for the watcher)
NumberedLines(p, ls, first) ==
  [i \in 1..Len(ls) |->
     LineEvent(p, ls[i], IF cmd = "tail" THEN first + i - 1 ELSE 0)]

\* EventEmitter.emit: an 'error' event emitted while no listener is attached
\* is thrown by emit() itself; any other event without listener is dropped
Unhandled(evs) ==
  LET IsError(e) == e.type = "error"
  IN  IF listeners THEN <<>> ELSE SelectSeq(evs, IsError)

\* the elements of a sequence
Range(q) == {q[i] : i \in 1..Len(q)}

\* the engine of the run is a LogWatcher (made by the watch command or by a Dashboard)
Watching == cmd \in {"watch", "dashboard"}

\* ------------------------------------------------------ the file system
Exists(p)  == disk[p].exists
Content(p) == disk[p].content
\* fs.statSync(p).size
Size(p)    == Len(disk[p].content)

\* ------------------------------------------------------ Initial Window Reader
\* estimatedBytes = Math.min(numLines * 120, fileSize); start = Math.max(0, fileSize - estimatedBytes)
WindowStart(fileSize, numLines) ==
  Max(0, fileSize - Min(numLines * BytesPerLine, fileSize))

\* stream 'end' of readLastLines: split, drop blank lines, keep the last numLines
WindowLines(buffer, numLines) ==
  SliceLast(FilterLines(SplitNL(buffer)), numLines)

NoReg == [pc |-> "none", follow |-> FALSE, size |-> 0, start |-> 0, pos |-> 0,
          opened |-> FALSE, buffer |-> <<>>, lastLines |-> <<>>, cursor |-> 0]

\* tail(p, {follow}): existsSync, then readLastLines up to the creation of its
\* stream
TailCall(p, follow) ==
  /\ cmd = "tail"
  /\ p \in Range(opts.files)
  /\ reg[p].pc = "none"
  /\ IF ~Exists(p)
     THEN \* throw new Error('File not found'): caught, emitted, rethrown
          /\ events' = Append(events, ErrorEvent(p, "NotFound"))
          /\ reg' = [reg EXCEPT ![p].pc = "failed", ![p].follow = follow]
     ELSE /\ events' = events
          /\ IF Size(p) = 0
             THEN reg' = [reg EXCEPT ![p].pc = "resolved", ![p].follow = follow,
                                     ![p].lastLines = <<>>]
             ELSE reg' = [reg EXCEPT ![p].pc = "reading",
                                     ![p].follow = follow,
                                     ![p].size = Size(p),
                                     ![p].start = WindowStart(Size(p), opts.lines),
                                     ![p].pos = WindowStart(Size(p), opts.lines)]
  /\ UNCHANGED <<cmd, opts, calls, filterVars, uncaught, lifeVars, fsVars, files, following, pollInterval, timers,
                 watcherVars, pending, streams, reads, closed, obs>>

\* the tail() calls of the command, all with its follow option
TailBegin(p) ==
  /\ stopCalls = <<>>      \* the runs start no registration after a stop
  /\ TailCall(p, opts.follow)

\* a tail() call with any follow flag, made at any moment; the mapped functions
\* of tailMultiple() share the flag of their call
TailCallAny(p) ==
  \E follow \in (IF opts.multiple THEN {opts.follow} ELSE BOOLEAN) : TailCall(p, follow)

\* this.pollInterval beside the timers that are set
ThisTimer == [pollInterval |-> pollInterval, timers |-> timers]

\* the mutant of StartFollowing: the timer that is set is not cleared
StartFollowingNoClear(t) == [pollInterval |-> TRUE, timers |-> t.timers + 1]

\* startFollowing(): if (this.pollInterval) clearInterval(this.pollInterval);
\* this.pollInterval = setInterval(...)
StartFollowing(t) ==
  [pollInterval |-> TRUE,
   timers |-> (IF t.pollInterval THEN t.timers - 1 ELSE t.timers) + 1]

\* stop(): if (this.pollInterval) { clearInterval(...); this.pollInterval = null }
ClearPoll(t) ==
  IF t.pollInterval THEN [pollInterval |-> FALSE, timers |-> t.timers - 1] ELSE t

\* the window stream opens its file; a file unlinked meanwhile fails the stream,
\* the promise rejects and tail() emits the error
WindowOpen(p) ==
  /\ reg[p].pc = "reading"
  /\ ~reg[p].opened
  /\ IF Exists(p)
     THEN /\ reg' = [reg EXCEPT ![p].opened = TRUE]
          /\ events' = events
     ELSE /\ reg' = [reg EXCEPT ![p].pc = "failed"]
          /\ events' = Append(events, ErrorEvent(p, "ENOENT"))
  /\ UNCHANGED <<cmd, opts, calls, filterVars, uncaught, lifeVars, fsVars, files, following, pollInterval, timers,
                 watcherVars, pending, streams, reads, closed, obs>>

\* stream 'data' of readLastLines: buffer += chunk. No `end` option is given, so
\* the stream reads whatever the file holds from `start` on when it reads.
WindowData(p) ==
  /\ reg[p].pc = "reading"
  /\ reg[p].opened
  /\ reg[p].pos < Size(p)
  /\ reg' = [reg EXCEPT ![p].buffer = @ \o Slice(Content(p), reg[p].pos, Size(p)),
                        ![p].pos = Size(p)]
  /\ UNCHANGED <<cmd, opts, calls, filterVars, uncaught, lifeVars, fsVars, files, following, pollInterval, timers,
                 watcherVars, pending, streams, events, reads, closed, obs>>

\* stream 'end' of readLastLines: a read found nothing more; resolve(lastLines)
WindowEnd(p) ==
  /\ reg[p].pc = "reading"
  /\ reg[p].opened
  /\ reg[p].pos >= Size(p)
  /\ reg' = [reg EXCEPT ![p].pc = "resolved",
                        ![p].lastLines = WindowLines(reg[p].buffer, opts.lines)]
  /\ UNCHANGED <<cmd, opts, calls, filterVars, uncaught, lifeVars, fsVars, files, following, pollInterval, timers,
                 watcherVars, pending, streams, events, reads, closed, obs>>

\* tail() and the mapped function of tailMultiple() after the await: emit the
\* initial lines, statSync, files.set; tail() alone goes on to start following
TailResume(p) ==
  /\ reg[p].pc = "resolved"
  /\ LET initial == NumberedLines(p, reg[p].lastLines, 1) IN
     IF ~Exists(p)
     THEN \* statSync throws: caught, emitted, rethrown
          /\ events' = (events \o initial) \o <<ErrorEvent(p, "ENOENT")>>
          /\ reg' = [reg EXCEPT ![p].pc = "failed"]
          /\ UNCHANGED <<files, following, pollInterval, timers>>
     ELSE /\ events' = events \o initial
          /\ files' = MapSet(files, p, Size(p))
          /\ reg' = [reg EXCEPT ![p].pc = "done", ![p].cursor = Size(p)]
          /\ LET follow == reg[p].follow /\ ~opts.multiple
                 t == IF follow THEN StartFollowing(ThisTimer) ELSE ThisTimer
             IN  /\ following' = (following \/ follow)
                 /\ pollInterval' = t.pollInterval
                 /\ timers' = t.timers
  /\ UNCHANGED <<cmd, opts, calls, filterVars, uncaught, lifeVars, fsVars, watcherVars, pending, streams, reads, closed, obs>>

\* the mutant of FollowAfterJoin: a failed registration keeps the call from following
FollowAfterJoinNoneFailed ==
  opts.follow /\ \A p \in Range(opts.files) : reg[p].pc = "done"

\* tailMultiple() after the await: if (follow)
FollowAfterJoin == opts.follow

\* tailMultiple() after `await Promise.all(promises)`: every mapped function has
\* returned (none rejects: each catches its own errors); if (follow) startFollowing
TailMultipleJoin ==
  /\ cmd = "tail"
  /\ opts.multiple
  /\ ~joined
  /\ \A p \in Range(opts.files) : reg[p].pc \in {"done", "failed"}
  /\ joined' = TRUE
  /\ following' = (following \/ FollowAfterJoin)
  /\ LET t == IF FollowAfterJoin THEN StartFollowing(ThisTimer) ELSE ThisTimer
     IN  /\ pollInterval' = t.pollInterval
         /\ timers' = t.timers
  /\ UNCHANGED <<cmd, opts, calls, filterVars, uncaught, watcher, listeners, dashboard, stopCalls, polled, fsVars,
                 files, reg, watcherVars, pending, streams, events, reads, closed, obs>>

\* ------------------------------------------------------------ Delta Reader
\* fs.createReadStream validates its options at once: `end` must be an integer
\* >= 0 and `start` <= `end`, or it throws ERR_OUT_OF_RANGE
StreamOptionsValid(start, last) == last >= 0 /\ start <= last

\* createReadStream(filePath, {start, end: end - 1}): `end` is inclusive
StreamLast(end) == end - 1

NewStream(p, start, end) ==
  [file |-> p, start |-> start, last |-> StreamLast(end), pos |-> start, opened |-> FALSE,
   buffer |-> <<>>, lineNumber |-> 0,
   chunks |-> 0, consumed |-> <<>>, extracted |-> <<>>, emitted |-> <<>>,
   outcome |-> "open", code |-> ""]

\* readNewContent(filePath, start, end) up to the return: creates the stream and
\* attaches its handlers; es.threw tells that createReadStream threw
ReadNewContent(es, p, start, end) ==
  LET called == [es EXCEPT !.reads = Append(@, [file |-> p, start |-> start, end |-> end])]
  IN  IF StreamOptionsValid(start, StreamLast(end))
      THEN [called EXCEPT !.streams = Append(@, NewStream(p, start, end))]
      ELSE [called EXCEPT !.threw = TRUE]

\* the mutant of DataHandler: the buffer is not threaded to the next chunk
DataHandlerNoCarry(buffer, chunk) ==
  LET parts == SplitNL(chunk)
  IN  [lines |-> Front(parts), buffer |-> Last(parts)]

\* stream 'data': buffer += chunk; lines = buffer.split('\n'); buffer = lines.pop() || ''
DataHandler(buffer, chunk) ==
  LET parts == SplitNL(buffer \o chunk)
  IN  [lines |-> Front(parts), buffer |-> Last(parts)]

\* the mutant of EndHandler: what is left in the buffer is not emitted
EndHandlerSilent(buffer) == <<>>

\* stream 'end': if (buffer.trim()) emit('line', buffer) - the lines it emits
EndHandler(buffer) == IF Truthy(buffer) THEN <<buffer>> ELSE <<>>

RemoveAt(q, i) == SubSeq(q, 1, i - 1) \o SubSeq(q, i + 1, Len(q))

\* bytes the stream can read now: up to its inclusive end, and to the end of file
Available(st) == Min(st.last + 1, Size(st.file)) - st.pos

\* the stream opens its file; if the file is gone: stream 'error' -> emit('error')
StreamOpen(i) ==
  /\ i \in 1..Len(streams)
  /\ ~streams[i].opened
  /\ IF Exists(streams[i].file)
     THEN /\ streams' = [streams EXCEPT ![i].opened = TRUE]
          /\ UNCHANGED <<events, closed, uncaught>>
     ELSE /\ streams' = RemoveAt(streams, i)
          /\ events' = Append(events, ErrorEvent(streams[i].file, "ENOENT"))
          /\ uncaught' = uncaught \o Unhandled(<<ErrorEvent(streams[i].file, "ENOENT")>>)
          /\ closed' = Append(closed, [streams[i] EXCEPT !.outcome = "error",
                                                         !.code = "ENOENT"])
  /\ UNCHANGED <<cmd, opts, calls, filterVars, lifeVars, fsVars, tailerVars, watcherVars, pending, reads, obs>>

\* stream 'data' with a chunk of k bytes
StreamChunk(i, k) ==
  /\ i \in 1..Len(streams)
  /\ streams[i].opened
  /\ k \in 1..Available(streams[i])
  /\ LET st    == streams[i]
         chunk == Slice(Content(st.file), st.pos, st.pos + k)
         r     == DataHandler(st.buffer, chunk)
         out   == FilterLines(r.lines)
     IN  /\ events' = events \o NumberedLines(st.file, out, st.lineNumber + 1)
         /\ streams' = [streams EXCEPT ![i] =
               [st EXCEPT !.pos = @ + k, !.buffer = r.buffer,
                          !.lineNumber = @ + Len(out),
                          !.chunks = @ + 1,
                          !.consumed = @ \o chunk,
                          !.extracted = @ \o r.lines,
                          !.emitted = @ \o out]]
  /\ UNCHANGED <<cmd, opts, calls, filterVars, uncaught, lifeVars, fsVars, tailerVars, watcherVars, pending, reads, closed, obs>>

\* stream 'data' with a chunk of any size (any cut the stream may make)
StreamData(i) == \E k \in 1..Available(streams[i]) : StreamChunk(i, k)

\* stream 'data' with everything the stream can read now as one chunk (a
\* range below the stream's highWaterMark)
StreamDataWhole(i) == StreamChunk(i, Available(streams[i]))

\* stream 'end': the range is exhausted, or the file holds no more bytes
StreamEnd(i) ==
  /\ i \in 1..Len(streams)
  /\ streams[i].opened
  /\ Available(streams[i]) <= 0
  /\ LET st  == streams[i]
         out == EndHandler(st.buffer)
     IN  /\ events' = events \o NumberedLines(st.file, out, st.lineNumber + 1)
         /\ closed' = Append(closed, [st EXCEPT !.lineNumber = @ + Len(out),
                                               !.emitted = @ \o out,
                                               !.outcome = "end"])
         /\ streams' = RemoveAt(streams, i)
  /\ UNCHANGED <<cmd, opts, calls, filterVars, uncaught, lifeVars, fsVars, tailerVars, watcherVars, pending, reads, obs>>

\* stream 'error' for a reason other than disappearance (EACCES at open, EIO in
\* a read): the handler emits 'error'; nothing else is done
StreamError(i) ==
  /\ i \in 1..Len(streams)
  /\ writes < MaxWrites
  /\ writes' = writes + 1
  /\ events' = Append(events, ErrorEvent(streams[i].file, "EIO"))
  /\ uncaught' = uncaught \o Unhandled(<<ErrorEvent(streams[i].file, "EIO")>>)
  /\ closed' = Append(closed, [streams[i] EXCEPT !.outcome = "error", !.code = "EIO"])
  /\ streams' = RemoveAt(streams, i)
  /\ UNCHANGED <<cmd, opts, calls, filterVars, lifeVars, disk, fsHist, tailerVars, watcherVars, pending,
                 reads, obs>>

\* ------------------------------------------------------- Rotation Detector
\* if (currentSize < lastPosition)
IsTruncated(currentSize, lastPosition) == currentSize < lastPosition

\* the mutant of IsGrown: an unchanged size counts as growth
IsGrownOrEqual(currentSize, lastPosition) == currentSize >= lastPosition

\* if (currentSize > lastPosition)
IsGrown(currentSize, lastPosition) == currentSize > lastPosition

\* the mutant of GrownStart: the delta read starts at the head of the file
GrownStartZero(lastPosition) == 0

\* readNewContent(filePath, lastPosition, currentSize, ...): where a delta read starts
GrownStart(lastPosition) == lastPosition

\* the engine state a handler works on
EngineState(positions) ==
  [positions |-> positions, streams |-> streams, events |-> events,
   reads |-> reads, obs |-> obs, threw |-> FALSE, uncaught |-> <<>>]

\* this.emit(...) in a handler; es.uncaught holds what emit() threw
Emit(es, e) ==
  [es EXCEPT !.events = Append(@, e), !.uncaught = @ \o Unhandled(<<e>>)]

\* history: what the driver saw of p (had: a cursor entry existed)
Saw(es, p, kind, had, stored, current) ==
  [es EXCEPT !.obs[p] = [kind |-> kind, had |-> had, stored |-> stored, current |-> current]]

\* ------------------------------------------------------------------ Poller
\* the mutant of RemovalHandling: a missing file counts as shrunk to nothing
RemovalAsTruncated(es, p, lastPosition) ==
  [Saw(es, p, "truncated", TRUE, lastPosition, 0) EXCEPT !.positions = MapSet(@, p, 0)]

\* catch: error.code === 'ENOENT': this.files.delete(filePath); emit('fileRemoved')
RemovalHandling(es, p, lastPosition) ==
  Emit([Saw(es, p, "missing", TRUE, lastPosition, -1)
          EXCEPT !.positions = MapDelete(@, p)],
       OtherEvent("fileRemoved", p, -1))

\* the body of the for loop of checkForNewContent for one entry of this.files
PollFile(es, p, lastPosition) ==
  IF ~Exists(p)
  THEN \* statSync throws ENOENT
       RemovalHandling(es, p, lastPosition)
  ELSE LET currentSize == Size(p) IN
       IF IsTruncated(currentSize, lastPosition)
       THEN LET r == ReadNewContent(
                       [Saw(es, p, "truncated", TRUE, lastPosition, currentSize)
                          EXCEPT !.positions = MapSet(@, p, 0)],
                       p, 0, currentSize)
            IN  IF r.threw
                THEN Emit([r EXCEPT !.threw = FALSE], ErrorEvent(p, "ERR_OUT_OF_RANGE"))
                ELSE r
       ELSE IF IsGrown(currentSize, lastPosition)
       THEN LET r == ReadNewContent(Saw(es, p, "grown", TRUE, lastPosition, currentSize),
                                    p, GrownStart(lastPosition), currentSize)
            IN  IF r.threw
                THEN Emit([r EXCEPT !.threw = FALSE], ErrorEvent(p, "ERR_OUT_OF_RANGE"))
                ELSE [r EXCEPT !.positions = MapSet(@, p, currentSize)]
       ELSE Saw(es, p, "unchanged", TRUE, lastPosition, currentSize)

RECURSIVE PollLoopAbort(_, _)
\* the mutant of PollLoop: the first file found missing ends the tick
PollLoopAbort(es, entries) ==
  IF entries = <<>> THEN es
  ELSE IF ~Exists(Head(entries).k)
  THEN PollFile(es, Head(entries).k, Head(entries).v)
  ELSE PollLoopAbort(PollFile(es, Head(entries).k, Head(entries).v), Tail(entries))

RECURSIVE PollLoop(_, _)
\* for (const [filePath, lastPosition] of this.files.entries()): each entry in
\* its own try / catch; an error that emit() throws inside the catch block
\* leaves the loop and the callback
PollLoop(es, entries) ==
  IF entries = <<>> \/ es.uncaught # <<>> THEN es
  ELSE PollLoop(PollFile(es, Head(entries).k, Head(entries).v), Tail(entries))

\* one firing of the setInterval callback: checkForNewContent
PollTick ==
  /\ timers > 0
  /\ LET r == PollLoop(EngineState(files), files)
     IN  /\ files' = r.positions
         /\ streams' = r.streams
         /\ events' = r.events
         /\ reads' = r.reads
         /\ obs' = r.obs
         /\ uncaught' = uncaught \o r.uncaught
  /\ polled' = [i \in 1..Len(files) |-> files[i].k]
  /\ UNCHANGED <<cmd, opts, calls, filterVars, watcher, listeners, joined, dashboard, stopCalls, fsVars,
                 following, pollInterval, timers, reg, watcherVars, pending, closed>>

\* ---------------------------------------------------------------- Notifier
\* chokidar delivers 'add': handleFileAdd
HandleFileAdd(p) ==
  /\ Watching
  /\ watcher
  /\ pending[p].add
  /\ pending' = [pending EXCEPT ![p].add = FALSE]
  /\ IF ~Exists(p)
     THEN /\ events' = Append(events, ErrorEvent(p, "ENOENT"))
          /\ filePositions' = filePositions
     ELSE /\ filePositions' = MapSet(filePositions, p, Size(p))
          /\ events' = events \o <<OtherEvent("fileAdded", p, Size(p)), OtherEvent("change", p, Size(p))>>
  /\ UNCHANGED <<cmd, opts, calls, filterVars, uncaught, lifeVars, fsVars, tailerVars, watched, streams, reads, closed, obs>>

\* handleFileChange as a function of the engine state
FileChange(es, p) ==
  LET had          == MapHas(es.positions, p)
      lastPosition == GetOrZero(es.positions, p)
  IN
  IF ~Exists(p)
  THEN \* statSync throws: catch, emit('error')
       Emit(Saw(es, p, "missing", had, lastPosition, -1), ErrorEvent(p, "ENOENT"))
  ELSE LET size == Size(p)
       IN  IF size < lastPosition
           THEN LET r == ReadNewContent(
                           [Saw(es, p, "truncated", had, lastPosition, size)
                              EXCEPT !.positions = MapSet(@, p, 0)],
                           p, 0, size)
                IN  IF r.threw
                    THEN Emit([r EXCEPT !.threw = FALSE], ErrorEvent(p, "ERR_OUT_OF_RANGE"))
                    ELSE r
           ELSE LET r == IF size > lastPosition
                         THEN ReadNewContent(Saw(es, p, "grown", had, lastPosition, size),
                                             p, lastPosition, size)
                         ELSE Saw(es, p, "unchanged", had, lastPosition, size)
                IN  [r EXCEPT !.positions = MapSet(@, p, size)]

\* chokidar delivers 'change': handleFileChange. chokidar reports a change of a
\* path only after it has reported the path's 'add'.
HandleFileChange(p) ==
  /\ Watching
  /\ watcher
  /\ pending[p].change
  /\ ~pending[p].add
  /\ pending' = [pending EXCEPT ![p].change = FALSE]
  /\ LET r == FileChange(EngineState(filePositions), p)
     IN  /\ filePositions' = r.positions
         /\ streams' = r.streams
         /\ events' = r.events
         /\ reads' = r.reads
         /\ obs' = r.obs
         /\ uncaught' = uncaught \o r.uncaught
  /\ UNCHANGED <<cmd, opts, calls, filterVars, lifeVars, fsVars, tailerVars, watched, closed>>

\* chokidar delivers 'unlink': handleFileRemove
HandleFileRemove(p) ==
  /\ Watching
  /\ watcher
  /\ pending[p].unlink
  /\ pending' = [pending EXCEPT ![p].unlink = FALSE]
  /\ filePositions' = MapDelete(filePositions, p)
  /\ events' = events \o <<OtherEvent("fileRemoved", p, -1), OtherEvent("change", p, -1)>>
  /\ UNCHANGED <<cmd, opts, calls, filterVars, uncaught, lifeVars, fsVars, tailerVars, watched, streams, reads, closed, obs>>

\* the mutant of Spliced: splice(index) without a count drops the rest too
SplicedToEnd(ws, index) == SubSeq(ws, 1, index - 1)

\* this.files.splice(index, 1), index counted from 1 here
Spliced(ws, index) == SubSeq(ws, 1, index - 1) \o SubSeq(ws, index + 1, Len(ws))

\* this.files.indexOf(absolutePath), counted from 1
IndexOf(ws, p) == CHOOSE i \in 1..Len(ws) : ws[i] = p /\ \A j \in 1..(i - 1) : ws[j] # p

\* LogWatcher.addFile: if the path is not in this.files, push it and hand it to
\* chokidar, which reports an 'add' for it unless ignoreInitial is set
AddFile(p) ==
  /\ cmd = "watch"
  /\ calls < MaxCalls
  /\ calls' = calls + 1
  /\ p \notin Range(watched)
  /\ watched' = Append(watched, p)
  /\ pending' = IF watcher
                THEN [pending EXCEPT ![p].add = ~opts.ignoreInitial /\ Exists(p)]
                ELSE pending
  /\ UNCHANGED <<cmd, opts, filterVars, uncaught, lifeVars, fsVars, tailerVars, filePositions, streams, events,
                 reads, closed, obs>>

\* LogWatcher.removeFile: if the path is in this.files, splice it out, unwatch
\* it and delete its cursor entry. A notification chokidar already holds for the
\* path is dropped, or (awaitWriteFinish has its own timers) still delivered.
RemoveFile(p) ==
  /\ cmd = "watch"
  /\ calls < MaxCalls
  /\ calls' = calls + 1
  /\ p \in Range(watched)
  /\ watched' = Spliced(watched, IndexOf(watched, p))
  /\ filePositions' = MapDelete(filePositions, p)
  /\ \E dropped \in BOOLEAN :
       pending' = IF dropped /\ watcher
                  THEN [pending EXCEPT ![p] = [add |-> FALSE, change |-> FALSE,
                                               unlink |-> FALSE]]
                  ELSE pending
  /\ UNCHANGED <<cmd, opts, filterVars, uncaught, lifeVars, fsVars, tailerVars, streams, events, reads, closed, obs>>

\* --------------------------------------------------------------- LogFilter
\* the letters of the modelled alphabet in lower case (the flag `i`)
LowerCase(c) == IF c = "E" THEN "e" ELSE IF c = "R" THEN "r" ELSE c

Folded(text, caseSensitive) ==
  IF caseSensitive THEN text ELSE [i \in 1..Len(text) |-> LowerCase(text[i])]

\* the offsets (0-based) at or after `from` at which the literal `source` occurs
\* in `line` (patterns are escaped: `regex` is off by default)
MatchesFrom(source, line, from, caseSensitive) ==
  {i \in from..(Len(line) - Len(source)) :
     Slice(Folded(line, caseSensitive), i, i + Len(source))
       = Folded(source, caseSensitive)}

\* new RegExp(escaped pattern, 'g' or 'gi'): lastIndex starts at 0
NewRegExp(source) == [source |-> source, lastIndex |-> 0]

\* new LogFilter(options)
NewLogFilter(options) ==
  [caseSensitive |-> options.caseSensitive,
   includePatterns |-> [i \in 1..Len(options.include) |-> NewRegExp(options.include[i])],
   excludePatterns |-> [i \in 1..Len(options.exclude) |-> NewRegExp(options.exclude[i])]]

\* the mutant of RegExpTest: a RegExp without the flag `g` (lastIndex unused)
RegExpTestNoGlobal(re, line, caseSensitive) ==
  [matched |-> MatchesFrom(re.source, line, 0, caseSensitive) # {},
   lastIndex |-> re.lastIndex]

\* pattern.test(line) of a RegExp with the flag `g`: the search starts at
\* lastIndex; a match moves lastIndex to its end, a failure resets it to 0
RegExpTest(re, line, caseSensitive) ==
  LET found == IF re.lastIndex > Len(line) THEN {}
               ELSE MatchesFrom(re.source, line, re.lastIndex, caseSensitive)
  IN  IF found = {} THEN [matched |-> FALSE, lastIndex |-> 0]
      ELSE LET at == CHOOSE i \in found : \A j \in found : i <= j
           IN  [matched |-> TRUE, lastIndex |-> at + Len(re.source)]

RECURSIVE SomeFrom(_, _, _, _)
\* patterns.some(pattern => pattern.test(line)) from the k-th pattern on: tests
\* in order and stops at the first match
SomeFrom(patterns, line, caseSensitive, k) ==
  IF k > Len(patterns) THEN [matched |-> FALSE, patterns |-> patterns]
  ELSE LET r      == RegExpTest(patterns[k], line, caseSensitive)
           tested == [patterns EXCEPT ![k].lastIndex = r.lastIndex]
       IN  IF r.matched THEN [matched |-> TRUE, patterns |-> tested]
           ELSE SomeFrom(tested, line, caseSensitive, k + 1)

Some(patterns, line, caseSensitive) == SomeFrom(patterns, line, caseSensitive, 1)

\* LogFilter.shouldInclude(line): the answer and the filter it leaves
ShouldInclude(f, line) ==
  LET inc      == Some(f.includePatterns, line, f.caseSensitive)
      included == Len(f.includePatterns) = 0 \/ inc.matched
      afterInc == IF Len(f.includePatterns) = 0 THEN f
                  ELSE [f EXCEPT !.includePatterns = inc.patterns]
      exc      == Some(f.excludePatterns, line, f.caseSensitive)
  IN  IF ~included THEN [result |-> FALSE, filter |-> afterInc]
      ELSE IF Len(f.excludePatterns) > 0
      THEN [result |-> ~exc.matched,
            filter |-> [afterInc EXCEPT !.excludePatterns = exc.patterns]]
      ELSE [result |-> TRUE, filter |-> afterInc]

\* the lines handed to the filter
FilterInputs ==
  { <<"e", "r">>, <<"E", "R">>, <<"x", "e", "r">>, <<"o", "k">> }

\* the 'line' listener of the commands: if (!filter.shouldInclude(line)) return
LineListener(line) ==
  /\ Len(verdicts) < MaxFilterCalls
  /\ LET r == ShouldInclude(filter, line)
     IN  /\ filter' = r.filter
         /\ verdicts' = Append(verdicts, [line |-> line, result |-> r.result])
  /\ UNCHANGED <<cmd, opts, calls, uncaught, lifeVars, fsVars, tailerVars, watcherVars, pending,
                 streams, events, reads, closed, obs>>

\* ---------------------------------------------------------------- stopping
\* a tail() or tailMultiple() call has started and not yet returned
Registering ==
  /\ cmd = "tail"
  /\ \/ \E p \in Range(opts.files) : reg[p].pc \in {"reading", "resolved"}
     \/ /\ opts.multiple /\ ~joined
        /\ \E p \in Range(opts.files) : reg[p].pc # "none"

\* history: one stop() / close() call, whether it threw, and whether a
\* registration was in flight when it was made
StopCall(op, threw) == [op |-> op, threw |-> threw, inFlight |-> Registering]

\* the mutant of CloseIfOpen: close() is called on the handle without the null check
CloseUnguarded(handle) == [handle |-> FALSE, threw |-> ~handle]

\* if (this.watcher) { this.watcher.close(); this.watcher = null; }
CloseIfOpen(handle) == [handle |-> FALSE, threw |-> FALSE]

\* LogTailer.getFiles() / LogWatcher.getFiles()
GetFiles ==
  IF cmd = "tail" THEN [i \in 1..Len(files) |-> files[i].k] ELSE watched

\* LogTailer.stop(): following = false; clearInterval; pollInterval = null
TailerStop ==
  /\ cmd = "tail"
  /\ Len(stopCalls) < MaxStops
  /\ following' = FALSE
  /\ pollInterval' = ClearPoll(ThisTimer).pollInterval
  /\ timers' = ClearPoll(ThisTimer).timers
  /\ stopCalls' = Append(stopCalls, StopCall("stop", FALSE))
  /\ UNCHANGED <<cmd, opts, calls, filterVars, uncaught, watcher, listeners, joined, dashboard, polled, fsVars, files,
                 reg, watcherVars, pending, streams, events, reads, closed, obs>>

\* LogTailer.close(): this.stop(); this.files.clear(); this.removeAllListeners()
TailerClose ==
  /\ cmd = "tail"
  /\ Len(stopCalls) < MaxStops
  /\ following' = FALSE
  /\ pollInterval' = ClearPoll(ThisTimer).pollInterval
  /\ timers' = ClearPoll(ThisTimer).timers
  /\ files' = <<>>
  /\ listeners' = FALSE
  /\ stopCalls' = Append(stopCalls, StopCall("close", FALSE))
  /\ UNCHANGED <<cmd, opts, calls, filterVars, uncaught, watcher, joined, dashboard, polled, fsVars,
                 reg, watcherVars, pending, streams, events, reads, closed, obs>>

\* LogWatcher.close() on the watcher w = [watcher, filePositions, listeners]:
\* close the chokidar handle if there is one, filePositions.clear(),
\* removeAllListeners(); a throw ends the call
LogWatcherClose(w) ==
  LET r == CloseIfOpen(w.watcher)
  IN  IF r.threw THEN [w EXCEPT !.threw = TRUE]
      ELSE [watcher |-> r.handle, filePositions |-> <<>>, listeners |-> FALSE,
            threw |-> FALSE]

ThisWatcher ==
  [watcher |-> watcher, filePositions |-> filePositions, listeners |-> listeners,
   threw |-> FALSE]

\* the watch command's watcher.close()
WatcherClose ==
  /\ cmd = "watch"
  /\ Len(stopCalls) < MaxStops
  /\ LET w == LogWatcherClose(ThisWatcher)
     IN  /\ watcher' = w.watcher
         /\ filePositions' = w.filePositions
         /\ listeners' = w.listeners
         /\ stopCalls' = Append(stopCalls, StopCall("watcherClose", w.threw))
  /\ UNCHANGED <<cmd, opts, calls, filterVars, uncaught, joined, dashboard, polled, fsVars, tailerVars, watched,
                 pending, streams, events, reads, closed, obs>>

\* Dashboard.start(): createServer, new WebSocketServer, new LogWatcher(files,
\* {persistent: true, ignoreInitial: false}), setupWatcher, listen
DashboardStart ==
  /\ cmd = "dashboard"
  /\ ~dashboard.server
  /\ stopCalls = <<>>
  /\ dashboard' = [watcher |-> TRUE, wss |-> TRUE, server |-> TRUE, clients |-> 0]
  /\ watcher' = TRUE
  /\ listeners' = TRUE
  /\ watched' = opts.files
  /\ pending' = [p \in Paths |->
       [add |-> p \in Range(opts.files) /\ Exists(p), change |-> FALSE, unlink |-> FALSE]]
  /\ UNCHANGED <<cmd, opts, calls, filterVars, uncaught, joined, stopCalls, polled, fsVars, tailerVars, filePositions,
                 streams, events, reads, closed, obs>>

\* wss 'connection': this.clients.add(ws)
ClientConnect ==
  /\ cmd = "dashboard"
  /\ dashboard.wss
  /\ dashboard.clients < MaxClients
  /\ dashboard' = [dashboard EXCEPT !.clients = @ + 1]
  /\ UNCHANGED <<cmd, opts, calls, filterVars, uncaught, watcher, listeners, joined, stopCalls, polled, fsVars,
                 tailerVars, watcherVars, pending, streams, events, reads, closed, obs>>

\* Dashboard.stop(): close the LogWatcher if there is one, close and forget the
\* clients, close wss and server if they are there
DashboardStop ==
  /\ cmd = "dashboard"
  /\ Len(stopCalls) < MaxStops
  /\ LET w == IF dashboard.watcher THEN LogWatcherClose(ThisWatcher) ELSE ThisWatcher
     IN  /\ watcher' = w.watcher
         /\ filePositions' = w.filePositions
         /\ listeners' = w.listeners
         /\ stopCalls' = Append(stopCalls, StopCall("dashboardStop", w.threw))
         /\ dashboard' = IF w.threw THEN dashboard
                         ELSE [watcher |-> FALSE, wss |-> FALSE, server |-> FALSE,
                               clients |-> 0]
  /\ UNCHANGED <<cmd, opts, calls, filterVars, uncaught, joined, polled, fsVars, tailerVars, watched,
                 pending, streams, events, reads, closed, obs>>

\* ------------------------------------------------------------ the writer
\* (another process: the log producer, logrotate) and chokidar's view of it
\* the stored cursor of the engine the process runs, -1 when p has no entry
Cursor(p) ==
  LET m == IF cmd = "tail" THEN files ELSE filePositions
  IN  IF MapHas(m, p) THEN MapGet(m, p) ELSE -1

IsWholeLine(piece) == Len(piece) >= 2 /\ Last(piece) = NL /\ Truthy(Front(piece))

\* history: the writer does something else to a file after the marked line
Overwritten(h) == [h EXCEPT !.marked = IF @ = "last" THEN "before" ELSE @]

Notice(p, kind) ==
  IF Watching /\ watcher /\ p \in Range(watched)
  THEN IF kind = "unlink" THEN [pending EXCEPT ![p].unlink = TRUE]
       ELSE [pending EXCEPT ![p].change = TRUE]
  ELSE pending

WriterAppend(p) ==
  /\ writes < MaxWrites
  /\ Exists(p)
  /\ \E piece \in Pieces :
       /\ disk' = [disk EXCEPT ![p].content = @ \o piece]
       /\ fsHist' = [fsHist EXCEPT ![p] = [Overwritten(@) EXCEPT
                                             !.partial = @ \/ ~IsWholeLine(piece)]]
  /\ writes' = writes + 1
  /\ pending' = Notice(p, "change")
  /\ UNCHANGED <<cmd, opts, calls, filterVars, uncaught, lifeVars, tailerVars, watcherVars, streams, events, reads, closed, obs>>

\* the writer appends one whole line
WriterAppendLine(p) ==
  /\ writes < MaxWrites
  /\ Exists(p)
  /\ disk' = [disk EXCEPT ![p].content = @ \o <<"x", NL>>]
  /\ fsHist' = [fsHist EXCEPT ![p] = Overwritten(@)]
  /\ writes' = writes + 1
  /\ pending' = Notice(p, "change")
  /\ UNCHANGED <<cmd, opts, calls, filterVars, uncaught, lifeVars, tailerVars, watcherVars, streams, events, reads, closed, obs>>

\* the line whose round trip is followed: "abc" and its terminator
MarkedLine == <<"a", "b", "c">>

\* the text of p ends at a line boundary
AtLineBoundary(p) == Size(p) = 0 \/ Last(Content(p)) = NL

\* the writer appends "abc\n", once per file; history: whether the file was
\* then tracked by a following LogTailer and ended at a line boundary
WriterAppendMarked(p) ==
  /\ writes < MaxWrites
  /\ Exists(p)
  /\ fsHist[p].marked = "never"
  /\ disk' = [disk EXCEPT ![p].content = @ \o MarkedLine \o <<NL>>]
  /\ fsHist' = [fsHist EXCEPT
       ![p].marked = "last",
       ![p].markedFollowed = /\ cmd = "tail" /\ following /\ pollInterval
                             /\ MapHas(files, p) /\ AtLineBoundary(p),
       ![p].partial = @ \/ ~AtLineBoundary(p)]
  /\ writes' = writes + 1
  /\ pending' = Notice(p, "change")
  /\ UNCHANGED <<cmd, opts, calls, filterVars, uncaught, lifeVars, tailerVars, watcherVars, streams, events, reads, closed, obs>>

\* open(p, O_TRUNC): the first half of a rotation in place
WriterTruncate(p) ==
  /\ writes < MaxWrites
  /\ Exists(p)
  /\ Size(p) > 0
  /\ disk' = [disk EXCEPT ![p].content = <<>>]
  /\ fsHist' = [fsHist EXCEPT ![p] = [Overwritten(@) EXCEPT
                                        !.truncated = TRUE,
                                        !.truncAt = Len(events),
                                        !.truncCursor = Cursor(p)]]
  /\ writes' = writes + 1
  /\ pending' = Notice(p, "change")
  /\ UNCHANGED <<cmd, opts, calls, filterVars, uncaught, lifeVars, tailerVars, watcherVars, streams, events, reads, closed, obs>>

\* unlink(p): the name is gone; streams that opened the file keep reading it
WriterUnlink(p) ==
  /\ writes < MaxWrites
  /\ Exists(p)
  /\ disk' = [disk EXCEPT ![p].exists = FALSE]
  /\ fsHist' = [fsHist EXCEPT ![p] = [Overwritten(@) EXCEPT !.unlinked = TRUE]]
  /\ writes' = writes + 1
  /\ pending' = Notice(p, "unlink")
  /\ UNCHANGED <<cmd, opts, calls, filterVars, uncaught, lifeVars, tailerVars, watcherVars, streams, events, reads, closed, obs>>

\* ------------------------------------------------------------ specification
SmallFile == <<"a", NL, "b", NL>>

\* the state after construction: of the LogTailer whose tail() (multiple FALSE)
\* or tailMultiple() is called on `paths`, of the LogWatcher the watch command
\* makes (ignoreInitial defaults to true), or of a Dashboard not yet started
InitEngine(cmds, paths, disks, lineCounts, follows, multiples) ==
  /\ cmd \in cmds
  /\ opts \in [lines : lineCounts, follow : follows, ignoreInitial : BOOLEAN,
               multiple : multiples, files : {paths}]
  /\ cmd = "tail" => opts.ignoreInitial
  /\ cmd = "watch" => opts.lines = DefaultLines /\ opts.follow /\ ~opts.multiple
  /\ cmd = "dashboard" =>
       opts.lines = DefaultLines /\ opts.follow /\ ~opts.multiple /\ ~opts.ignoreInitial
  /\ disk \in disks
  /\ calls = 0
  /\ uncaught = <<>>
  /\ watcher = (cmd = "watch")
  /\ listeners = (cmd # "dashboard")
  /\ joined = FALSE
  /\ dashboard = [watcher |-> FALSE, wss |-> FALSE, server |-> FALSE, clients |-> 0]
  /\ stopCalls = <<>>
  /\ polled = <<>>
  /\ fsHist = [p \in Paths |-> [truncated |-> FALSE, unlinked |-> FALSE, partial |-> FALSE,
                               truncAt |-> 0, truncCursor |-> -1,
                               initialSize |-> Len(disk[p].content),
                               marked |-> "never", markedFollowed |-> FALSE]]
  /\ writes = 0
  /\ files = <<>>
  /\ following = FALSE
  /\ pollInterval = FALSE
  /\ timers = 0
  /\ reg = [p \in Paths |-> NoReg]
  /\ filePositions = <<>>
  /\ watched = IF cmd = "watch" THEN opts.files ELSE <<>>
  /\ pending = [p \in Paths |->
       [add |-> cmd = "watch" /\ ~opts.ignoreInitial /\ p \in Range(opts.files)
                  /\ disk[p].exists,
        change |-> FALSE, unlink |-> FALSE]]
  /\ streams = <<>>
  /\ events = <<>>
  /\ reads = <<>>
  /\ closed = <<>>
  /\ obs = [p \in Paths |-> [kind |-> "none", had |-> FALSE, stored |-> 0, current |-> 0]]

\* FilterOptions without patterns, as the commands build them when no
\* --include / --exclude is given (caseSensitive: !options.ignoreCase)
NoPatterns == [include |-> <<>>, exclude |-> <<>>, caseSensitive |-> TRUE]

\* the engine after construction, beside a LogFilter without patterns
InitOf(cmds, paths, disks, lineCounts, follows, multiples) ==
  /\ InitEngine(cmds, paths, disks, lineCounts, follows, multiples)
  /\ filter = NewLogFilter(NoPatterns)
  /\ verdicts = <<>>

\* a path nothing was ever written to
Absent == [exists |-> FALSE, content |-> <<>>]

\* the command is given the one file f1, which exists and holds one of `contents`
InitWith(cmds, contents, lineCounts, follows) ==
  InitOf(cmds, <<"f1">>,
         {[p \in Paths |-> IF p = "f1" THEN [exists |-> TRUE, content |-> c] ELSE Absent] :
            c \in contents},
         lineCounts, follows, BOOLEAN)

Init == InitWith({"tail", "watch"}, {<<>>, SmallFile}, {DefaultLines}, {TRUE})

Next ==
  \/ \E p \in Paths : TailBegin(p)
  \/ \E p \in Paths : WindowOpen(p)
  \/ \E p \in Paths : WindowData(p)
  \/ \E p \in Paths : WindowEnd(p)
  \/ \E p \in Paths : TailResume(p)
  \/ TailMultipleJoin
  \/ PollTick
  \/ \E p \in Paths : HandleFileAdd(p)
  \/ \E p \in Paths : HandleFileChange(p)
  \/ \E p \in Paths : HandleFileRemove(p)
  \/ \E i \in 1..Len(streams) : StreamOpen(i)
  \/ \E i \in 1..Len(streams) : StreamData(i)
  \/ \E i \in 1..Len(streams) : StreamEnd(i)
  \/ \E p \in Paths : WriterAppend(p)
  \/ \E p \in Paths : WriterTruncate(p)
  \/ \E p \in Paths : WriterUnlink(p)

Spec == Init /\ [][Next]_vars

\* the same runs under the scheduling the code sets up: the interval timer
\* fires again and again while it is set, and chokidar delivers the
\* notifications it holds
Fairness ==
  /\ WF_vars(PollTick)
  /\ \A p \in Paths : WF_vars(HandleFileRemove(p))

SpecFair == Spec /\ Fairness

\* the same runs with reads that may fail
NextFault ==
  \/ Next
  \/ \E i \in 1..Len(streams) : StreamError(i)

SpecFault == Init /\ [][NextFault]_vars

\* the engines with their stop operations, called at any moment, on a file
\* to which the writer appends whole lines and which it truncates
InitLife ==
  InitWith({"tail", "watch", "dashboard"}, {SmallFile}, {DefaultLines}, {TRUE})

NextLife ==
  \/ \E p \in Paths : TailBegin(p)
  \/ \E p \in Paths : WindowOpen(p)
  \/ \E p \in Paths : WindowData(p)
  \/ \E p \in Paths : WindowEnd(p)
  \/ \E p \in Paths : TailResume(p)
  \/ TailMultipleJoin
  \/ PollTick
  \/ \E p \in Paths : HandleFileAdd(p)
  \/ \E p \in Paths : HandleFileChange(p)
  \/ \E i \in 1..Len(streams) : StreamOpen(i)
  \/ \E i \in 1..Len(streams) : StreamData(i)
  \/ \E i \in 1..Len(streams) : StreamEnd(i)
  \/ \E p \in Paths : WriterAppendLine(p)
  \/ \E p \in Paths : WriterTruncate(p)
  \/ TailerStop
  \/ TailerClose
  \/ WatcherClose
  \/ DashboardStart
  \/ ClientConnect
  \/ DashboardStop

SpecLife == InitLife /\ [][NextLife]_vars

\* tail() alone, without follow, on short and long files and for several values
\* of the `lines` option, while the writer goes on writing
InitWindow ==
  InitWith({"tail"}, {<<>>, SmallFile, LongLine, LongFile}, {0, 1, 2, DefaultLines}, {FALSE})

NextWindow ==
  \/ \E p \in Paths : TailBegin(p)
  \/ \E p \in Paths : WindowOpen(p)
  \/ \E p \in Paths : WindowData(p)
  \/ \E p \in Paths : WindowEnd(p)
  \/ \E p \in Paths : TailResume(p)
  \/ TailMultipleJoin
  \/ \E p \in Paths : WriterAppend(p)
  \/ \E p \in Paths : WriterTruncate(p)
  \/ \E p \in Paths : WriterUnlink(p)

SpecWindow == InitWindow /\ [][NextWindow]_vars

\* a LogTailer given two paths, each of which may be missing: by tailMultiple(),
\* or by one tail() call for each; the writer appends whole lines
OtherFile == <<"c", NL>>

InitMulti ==
  InitOf({"tail"}, <<"f1", "f2">>,
         {[p \in Paths |-> IF p = "f1" THEN d1 ELSE d2] :
            d1 \in {[exists |-> TRUE, content |-> SmallFile], Absent},
            d2 \in {[exists |-> TRUE, content |-> OtherFile], Absent}},
         {DefaultLines}, BOOLEAN, BOOLEAN)

NextMulti ==
  \/ \E p \in Paths : TailBegin(p)
  \/ \E p \in Paths : WindowOpen(p)
  \/ \E p \in Paths : WindowData(p)
  \/ \E p \in Paths : WindowEnd(p)
  \/ \E p \in Paths : TailResume(p)
  \/ TailMultipleJoin
  \/ PollTick
  \/ \E i \in 1..Len(streams) : StreamOpen(i)
  \/ \E i \in 1..Len(streams) : StreamData(i)
  \/ \E i \in 1..Len(streams) : StreamEnd(i)
  \/ \E p \in Paths : WriterAppendLine(p)
  \/ \E p \in Paths : WriterTruncate(p)
  \/ \E p \in Paths : WriterUnlink(p)
  \/ \E i \in 1..Len(streams) : StreamError(i)

SpecMulti == InitMulti /\ [][NextMulti]_vars

\* an engine given two files that exist, to which whole lines are appended:
\* a LogTailer whose tail() is called for each path at any moment, the second
\* possibly while the first is followed, and a LogWatcher whose addFile() and
\* removeFile() are called at any moment
InitDynamic ==
  InitOf({"tail", "watch"}, <<"f1", "f2">>,
         {[p \in Paths |-> [exists |-> TRUE,
                            content |-> IF p = "f1" THEN SmallFile ELSE OtherFile]]},
         {DefaultLines}, {TRUE}, {FALSE})

NextDynamic ==
  \/ \E p \in Paths : TailBegin(p)
  \/ \E p \in Paths : WindowOpen(p)
  \/ \E p \in Paths : WindowData(p)
  \/ \E p \in Paths : WindowEnd(p)
  \/ \E p \in Paths : TailResume(p)
  \/ PollTick
  \/ \E p \in Paths : HandleFileAdd(p)
  \/ \E p \in Paths : HandleFileChange(p)
  \/ \E i \in 1..Len(streams) : StreamOpen(i)
  \/ \E i \in 1..Len(streams) : StreamDataWhole(i)
  \/ \E i \in 1..Len(streams) : StreamEnd(i)
  \/ \E p \in Paths : WriterAppendLine(p)
  \/ \E p \in Paths : AddFile(p)
  \/ \E p \in Paths : RemoveFile(p)

SpecDynamic == InitDynamic /\ [][NextDynamic]_vars

\* a LogTailer on one file, followed, while the writer appends lines and, once,
\* the line "abc", and truncates; the timer keeps firing while it is set and
\* every stream goes on to its end
InitRound == InitWith({"tail"}, {SmallFile}, {DefaultLines}, {TRUE})

StreamStep ==
  \E i \in 1..Len(streams) : StreamOpen(i) \/ StreamData(i) \/ StreamEnd(i)

NextRound ==
  \/ \E p \in Paths : TailBegin(p)
  \/ \E p \in Paths : WindowOpen(p)
  \/ \E p \in Paths : WindowData(p)
  \/ \E p \in Paths : WindowEnd(p)
  \/ \E p \in Paths : TailResume(p)
  \/ TailMultipleJoin
  \/ PollTick
  \/ StreamStep
  \/ \E p \in Paths : writes < MaxRoundWrites /\ WriterAppendLine(p)
  \/ \E p \in Paths : writes < MaxRoundWrites /\ WriterAppendMarked(p)
  \/ \E p \in Paths : writes < MaxRoundWrites /\ WriterTruncate(p)

FairnessRound == WF_vars(PollTick) /\ WF_vars(StreamStep)

SpecRound == InitRound /\ [][NextRound]_vars /\ FairnessRound

\* a LogFilter of a command, with or without include and exclude patterns,
\* case sensitive or not, and the lines its 'line' listener is handed
FilterOptionsSet ==
  [include : {<<>>, << <<"e", "r">> >>, << <<"o">>, <<"e", "r">> >>},
   exclude : {<<>>, << <<"x">> >>},
   caseSensitive : BOOLEAN]

InitFilter ==
  /\ InitEngine({"tail"}, <<"f1">>,
                {[p \in Paths |-> IF p = "f1" THEN [exists |-> TRUE, content |-> SmallFile]
                                  ELSE Absent]},
                {DefaultLines}, {TRUE}, {TRUE})
  /\ filter \in {NewLogFilter(o) : o \in FilterOptionsSet}
  /\ verdicts = <<>>

NextFilter == \E line \in FilterInputs : LineListener(line)

SpecFilter == InitFilter /\ [][NextFilter]_vars

\* the engines with their close operations, called at any moment, on a file to
\* which the writer appends whole lines, with reads that may fail
InitClose == InitWith({"tail", "watch"}, {SmallFile}, {DefaultLines}, {TRUE})

NextClose ==
  \/ \E p \in Paths : TailBegin(p)
  \/ \E p \in Paths : WindowOpen(p)
  \/ \E p \in Paths : WindowData(p)
  \/ \E p \in Paths : WindowEnd(p)
  \/ \E p \in Paths : TailResume(p)
  \/ TailMultipleJoin
  \/ PollTick
  \/ \E p \in Paths : HandleFileAdd(p)
  \/ \E p \in Paths : HandleFileChange(p)
  \/ \E i \in 1..Len(streams) : StreamOpen(i)
  \/ \E i \in 1..Len(streams) : StreamDataWhole(i)
  \/ \E i \in 1..Len(streams) : StreamEnd(i)
  \/ \E i \in 1..Len(streams) : StreamError(i)
  \/ \E p \in Paths : WriterAppendLine(p)
  \/ TailerClose
  \/ WatcherClose

SpecClose == InitClose /\ [][NextClose]_vars

\* a LogTailer on two files, the second of which may be missing: tail() calls
\* with any follow flags, or one tailMultiple() call, with stop() and close()
\* called at any moment, before, between and after them
InitCalls ==
  InitOf({"tail"}, <<"f1", "f2">>,
         {[p \in Paths |-> IF p = "f1" THEN [exists |-> TRUE, content |-> SmallFile]
                                       ELSE d2] :
            d2 \in {[exists |-> TRUE, content |-> OtherFile], Absent}},
         {DefaultLines}, BOOLEAN, BOOLEAN)

NextCalls ==
  \/ \E p \in Paths : TailCallAny(p)
  \/ \E p \in Paths : WindowOpen(p)
  \/ \E p \in Paths : WindowData(p)
  \/ \E p \in Paths : WindowEnd(p)
  \/ \E p \in Paths : TailResume(p)
  \/ TailMultipleJoin
  \/ PollTick
  \/ TailerStop
  \/ TailerClose

SpecCalls == InitCalls /\ [][NextCalls]_vars

\* ================================================================== claims
\* the texts of the 'line' events of p among evs, in emission order
LineTexts(evs, p) ==
  LET IsLineOfP(e) == e.type = "line" /\ e.file = p
      sel == SelectSeq(evs, IsLineOfP)
  IN  [i \in 1..Len(sel) |-> sel[i].line]

EventsOf(evs, p) == LET OfP(e) == e.file = p IN SelectSeq(evs, OfP)
ReadsOf(rs, p)   == LET OfP(r) == r.file = p IN SelectSeq(rs, OfP)
StreamsOf(ss, p) == LET OfP(st) == st.file = p IN SelectSeq(ss, OfP)

\* the writer has only appended whole, non-blank lines to p
AppendOnly(p) == ~fsHist[p].truncated /\ ~fsHist[p].unlinked /\ ~fsHist[p].partial
\* the writer has only appended to p
GrowthOnly(p) == ~fsHist[p].truncated /\ ~fsHist[p].unlinked

\* nothing is left to do for p: registered, no delta read in flight, and the
\* driver's next look at p finds its size equal to the cursor
Settled(p) ==
  /\ StreamsOf(streams, p) = <<>>
  /\ Cursor(p) = Size(p)
  /\ cmd = "tail" => reg[p].pc = "done"
  /\ cmd = "watch" => ~pending[p].add /\ ~pending[p].change /\ ~pending[p].unlink

\* the byte offset at which the initial window read of p ended
WindowEndPos(p) == reg[p].pos

\* the complete non-blank lines of the bytes [from, to) of p
LinesBetween(p, from, to) == FilterLines(Front(SplitNL(Slice(Content(p), from, to))))

\* C1: while p only grows by appends of whole non-blank lines, every line of the
\* initial window and every line appended after the window read is emitted as a
\* 'line' event exactly once: once the poller has caught up, the line events of p
\* are the window's lines followed by the lines appended after it.
C1_ExactlyOnce ==
  \A p \in Paths :
    (cmd = "tail" /\ AppendOnly(p) /\ Settled(p))
      => LineTexts(events, p)
           = reg[p].lastLines \o LinesBetween(p, WindowEndPos(p), Size(p))

\* the step is a driver's examination of p that finds it smaller than its cursor
TruncationStep(p) ==
  \/ PollTick /\ MapHas(files, p) /\ Exists(p) /\ Size(p) < MapGet(files, p)
  \/ HandleFileChange(p) /\ MapHas(filePositions, p) /\ Exists(p)
       /\ Size(p) < MapGet(filePositions, p)

\* C2: when a driver processes a file whose size is smaller than its stored
\* cursor, the range handed to the delta reader is [0, currentSize) and after the
\* step the stored cursor equals currentSize.
C2_TruncationCursor ==
  [][\A p \in Paths :
       TruncationStep(p) =>
         /\ Len(ReadsOf(reads', p)) = Len(ReadsOf(reads, p)) + 1
         /\ Last(ReadsOf(reads', p)).start = 0
         /\ Last(ReadsOf(reads', p)).end = Size(p)
         /\ Cursor(p)' = Size(p)]_vars

\* the rotation scenario: "a\nb\n" was consumed (cursor 4), then the file was
\* truncated and "x\n" written, and the writer did nothing else
RotationScenario(p) ==
  /\ fsHist[p].truncated
  /\ fsHist[p].truncCursor = 4
  /\ cmd = "tail" => reg[p].lastLines = << <<"a">>, <<"b">> >>
  /\ Exists(p)
  /\ Content(p) = <<"x", NL>>
  /\ writes = 2

\* C3: after "a\nb\n" was emitted and the file is truncated and rewritten to
\* "x\n", the further 'line' events are exactly one 'x' and the cursor ends at 2,
\* whatever the driver observed in between.
C3_RotationOnce ==
  \A p \in Paths :
    (RotationScenario(p) /\ Settled(p))
      => /\ LineTexts(SubSeq(events, fsHist[p].truncAt + 1, Len(events)), p)
              = << <<"x">> >>
         /\ Cursor(p) = 2

\* the cursor p had when its first delta read was requested: the one tail()
\* recorded, or the position handleFileAdd recorded, or 0 (`|| 0`) without an add
InitialCursor(p) ==
  IF cmd = "tail" THEN reg[p].cursor
  ELSE LET IsAdd(e) == e.type = "fileAdded" /\ e.file = p
           adds == SelectSeq(events, IsAdd)
       IN  IF adds = <<>> THEN 0 ELSE adds[1].position

\* the step is a driver's examination of p that finds it larger than its cursor
GrownStep(p) ==
  \/ PollTick /\ MapHas(files, p) /\ Exists(p) /\ Size(p) > MapGet(files, p)
  \/ HandleFileChange(p) /\ Exists(p) /\ Size(p) > GetOrZero(filePositions, p)

\* the ranges requested for p so far tile [InitialCursor, Cursor) without gap or
\* overlap, and every stream has read exactly the bytes of its range
RangesTile(p) ==
  LET R == ReadsOf(reads, p) IN
  /\ \A i \in 1..Len(R) : R[i].start < R[i].end
  /\ \A i \in 1..(Len(R) - 1) : R[i + 1].start = R[i].end
  /\ Len(R) > 0 => R[1].start = InitialCursor(p) /\ R[Len(R)].end = Cursor(p)
  /\ \A i \in 1..Len(streams) :
       streams[i].file = p =>
         /\ streams[i].pos <= streams[i].last + 1
         /\ streams[i].consumed = Slice(Content(p), streams[i].start, streams[i].pos)
  /\ \A i \in 1..Len(closed) :
       (closed[i].file = p /\ closed[i].outcome = "end") =>
         closed[i].consumed = Slice(Content(p), closed[i].start, closed[i].last + 1)

\* C4: a driver that finds currentSize > storedSize hands exactly
\* [storedSize, currentSize) to the delta reader and sets the cursor to
\* currentSize; while the file only grows, the ranges read are contiguous and
\* disjoint, and each read consumes exactly the bytes of its range.
C4_GrowthRanges ==
  /\ [](\A p \in Paths : GrowthOnly(p) => RangesTile(p))
  /\ [][\A p \in Paths :
          GrownStep(p) =>
            /\ Len(ReadsOf(reads', p)) = Len(ReadsOf(reads, p)) + 1
            /\ Last(ReadsOf(reads', p)).start = (IF Cursor(p) < 0 THEN 0 ELSE Cursor(p))
            /\ Last(ReadsOf(reads', p)).end = Size(p)
            /\ Cursor(p)' = Size(p)]_vars

\* two growth observations of p, both read to their end
C4_Witness ==
  \E p \in Paths :
    /\ GrowthOnly(p)
    /\ InitialCursor(p) > 0
    /\ Len(ReadsOf(reads, p)) = 2
    /\ Len(closed) = 2
    /\ \A i \in 1..2 : closed[i].file = p /\ closed[i].outcome = "end"
    /\ obs[p].kind = "grown"

\* the step is a driver's examination of p that finds its size equal to the cursor
UnchangedStep(p) ==
  \/ PollTick /\ MapHas(files, p) /\ Exists(p) /\ Size(p) = MapGet(files, p)
  \/ HandleFileChange(p) /\ MapHas(filePositions, p) /\ Exists(p)
       /\ Size(p) = MapGet(filePositions, p)

\* C5: when a driver examines a file whose size equals its stored cursor, no
\* delta read is started, no event is emitted and the cursor entry is unchanged.
C5_UnchangedIsNoop ==
  [][\A p \in Paths :
       UnchangedStep(p) =>
         /\ ReadsOf(reads', p) = ReadsOf(reads, p)
         /\ StreamsOf(streams', p) = StreamsOf(streams, p)
         /\ EventsOf(events', p) = EventsOf(events, p)
         /\ Cursor(p)' = Cursor(p)
         /\ (\A q \in Paths : UnchangedStep(q)) =>
              files' = files /\ filePositions' = filePositions]_vars

\* a change notification found the size equal to the stored cursor
C5_Witness ==
  \E p \in Paths :
    cmd = "watch" /\ obs[p].kind = "unchanged" /\ obs[p].had /\ Size(p) > 0

\* the pieces of a text between terminators, the unterminated rest last
Remainder(text) == Last(SplitNL(text))
NonBlank(line) == ~TrimIsEmpty(line)

C7_CarryOverAcrossReads ==
  \A i, j \in 1..Len(closed) :
    LET c1 == closed[i]
        c2 == closed[j]
    IN  ( /\ c1.file = c2.file /\ GrowthOnly(c1.file)
          /\ c1.outcome = "end" /\ c2.outcome = "end"
          /\ c2.start = c1.last + 1
          /\ c1.consumed # <<>> /\ Last(c1.consumed) # NL
          /\ c2.consumed # <<>> /\ Last(c2.consumed) = NL )
        => c1.emitted \o c2.emitted
             = SelectSeq(Front(SplitNL(c1.consumed \o c2.consumed)), NonBlank)

\* C8: within one delta read, whatever the cuts between chunks, the lines the
\* data handler has extracted are the pieces of the text read so far split in
\* one call, without the unterminated rest, which is what the buffer holds; an
\* empty chunk extracts nothing and leaves the buffer as it is.
C8_ChunkingInvariant ==
  /\ \A i \in 1..Len(streams) :
       /\ streams[i].extracted = Front(SplitNL(streams[i].consumed))
       /\ streams[i].buffer = Remainder(streams[i].consumed)
       /\ DataHandler(streams[i].buffer, <<>>)
            = [lines |-> <<>>, buffer |-> streams[i].buffer]
  /\ \A i \in 1..Len(closed) :
       closed[i].extracted = Front(SplitNL(closed[i].consumed))

\* a stream whose text came in several chunks, one cut inside a line that a
\* later chunk completed
C8_Witness ==
  \E i \in 1..Len(closed) :
    /\ closed[i].chunks >= 3
    /\ closed[i].outcome = "end"
    /\ \E k \in 1..Len(closed[i].extracted) : Len(closed[i].extracted[k]) >= 2

\* C9: no 'line' event carries empty or whitespace-only text, in the initial
\* window and in the delta reads of both drivers, and the other lines of the
\* range are emitted in order.
C9_NoBlankLines ==
  /\ \A i \in 1..Len(events) :
       events[i].type = "line" => events[i].line # <<>> /\ ~TrimIsEmpty(events[i].line)
  /\ \A p \in Paths :
       reg[p].pc \in {"resolved", "done"} =>
         reg[p].lastLines
           = SliceLast(SelectSeq(SplitNL(reg[p].buffer), NonBlank), opts.lines)
  /\ \A i \in 1..Len(closed) :
       closed[i].outcome = "end" =>
         closed[i].emitted = SelectSeq(SplitNL(closed[i].consumed), NonBlank)

\* a delta read whose range held a whitespace-only line between emitted lines
C9_Witness ==
  \E i \in 1..Len(closed) :
    /\ closed[i].outcome = "end"
    /\ Len(closed[i].emitted) >= 1
    /\ \E k \in 1..Len(closed[i].extracted) :
         closed[i].extracted[k] # <<>> /\ TrimIsEmpty(closed[i].extracted[k])

\* C10: readLastLines(file, n) reads only the suffix that starts at
\* fileSize - min(n * 120, fileSize) and returns at most n lines, the last lines
\* of that suffix in file order; for n = 0 the result is empty.
C10_WindowAtMostN ==
  \A p \in Paths :
    reg[p].pc \in {"resolved", "done"} =>
      LET n    == opts.lines
          all  == SelectSeq(SplitNL(reg[p].buffer), NonBlank)
          kept == Min(n, Len(all))
      IN  /\ reg[p].start = reg[p].size - Min(n * 120, reg[p].size)
          /\ Len(reg[p].lastLines) <= n
          /\ reg[p].lastLines = SubSeq(all, Len(all) - kept + 1, Len(all))
          /\ n = 0 => reg[p].lastLines = <<>>

\* a is the last Len(a) elements of b
IsSuffix(a, b) == Len(a) <= Len(b) /\ a = SubSeq(b, Len(b) - Len(a) + 1, Len(b))

\* the window read of p started inside a line: at an offset > 0 whose preceding
\* byte is not a terminator
StartsMidLine(p) == reg[p].start > 0 /\ Content(p)[reg[p].start] # NL

\* C11: when the suffix read by readLastLines starts at an offset > 0 inside a
\* line, the text before the first terminator of the suffix is discarded: the
\* returned lines are taken from the pieces after it, so none is the tail
\* fragment of a longer line; when the read starts at byte 0 the first piece is
\* kept.
C11_FirstFragment ==
  \A p \in Paths :
    (reg[p].pc \in {"resolved", "done"} /\ reg[p].size > 0 /\ GrowthOnly(p)) =>
      LET pieces == SplitNL(reg[p].buffer)
      IN  /\ StartsMidLine(p) =>
               IsSuffix(reg[p].lastLines, SelectSeq(Tail(pieces), NonBlank))
          /\ (reg[p].start = 0 /\ Len(SelectSeq(pieces, NonBlank)) <= opts.lines
                /\ NonBlank(pieces[1])) =>
               (reg[p].lastLines # <<>> /\ reg[p].lastLines[1] = pieces[1])

\* C12: once tail() / tailMultiple() has registered p while the writer only
\* appends, the cursor it stored is the byte offset at which the initial window
\* read of p ended, so that no appended byte falls between the window and the
\* first delta read.
C12_CursorAtWindowEnd ==
  \A p \in Paths :
    (reg[p].pc = "done" /\ GrowthOnly(p)) => reg[p].cursor = WindowEndPos(p)

\* p was named to the call and has never existed
NeverExisted(p) == p \in Range(opts.files) /\ ~Exists(p) /\ ~fsHist[p].unlinked

\* every registration of the call has returned
AllReturned ==
  /\ \A q \in Range(opts.files) : reg[q].pc \in {"done", "failed"}
  /\ opts.multiple => joined

\* C13: registering a path that does not exist emits exactly one 'error' event
\* for it (NotFound), stores no cursor entry for it and emits no 'line' event
\* for it; every other file of the same tailMultiple() call (or of the other
\* tail() calls) that stays in place is registered, its initial lines are its
\* first events, and with `follow` the engine follows.
C13_NotFound ==
  \A p \in Paths :
    NeverExisted(p) =>
      /\ ~MapHas(files, p)
      /\ EventsOf(events, p) =
           (IF reg[p].pc = "none" THEN <<>> ELSE <<ErrorEvent(p, "NotFound")>>)
      /\ reg[p].pc \in {"none", "failed"}
      /\ AllReturned =>
           \A q \in Range(opts.files) \ {p} :
             (Exists(q) /\ GrowthOnly(q)) =>
               /\ reg[q].pc = "done"
               /\ MapHas(files, q)
               /\ LET got == LineTexts(events, q)
                  IN  /\ Len(got) >= Len(reg[q].lastLines)
                      /\ SubSeq(got, 1, Len(reg[q].lastLines)) = reg[q].lastLines
               /\ opts.follow => following /\ pollInterval

\* tailMultiple() was given a missing path and an existing file, has returned,
\* and the existing file's initial lines were emitted and it is followed
C13_Witness ==
  \E p, q \in Paths :
    /\ opts.multiple /\ opts.follow
    /\ NeverExisted(p) /\ reg[p].pc = "failed"
    /\ q # p /\ AllReturned
    /\ reg[q].pc = "done" /\ reg[q].lastLines = << <<"a">>, <<"b">> >>
    /\ MapHas(files, q) /\ pollInterval

\* C14: once the 'fileRemoved' event of a deleted path has been emitted, no
\* second 'fileRemoved' and no 'line' event is emitted for that path: a delta
\* read of the file still in flight at the removal emits nothing more.
C14_RemovedOnce ==
  \A i, j \in 1..Len(events) :
    (i < j /\ events[i].type = "fileRemoved" /\ events[j].file = events[i].file)
      => events[j].type \notin {"fileRemoved", "line"}

\* p was unlinked after a driver's size check of it succeeded: a delta read of
\* p is in flight on a missing file, or failed to open it
Vanished(p) ==
  /\ ~Exists(p)
  /\ \/ StreamsOf(streams, p) # <<>>
     \/ \E i \in 1..Len(closed) : closed[i].file = p /\ closed[i].code = "ENOENT"

\* removal handling of p has taken place
Removed(p) ==
  /\ Cursor(p) = -1
  /\ \E i \in 1..Len(events) : events[i].type = "fileRemoved" /\ events[i].file = p

C16_ReadErrorKeepsCursor ==
  [][\A i \in 1..Len(streams) : \A p \in Paths :
       (StreamError(i) /\ streams[i].file = p /\ streams[i].start > 0) =>
         /\ Last(events') = ErrorEvent(p, "EIO")
         /\ Cursor(p)' = streams[i].start]_vars

\* the cursor of q in a Map of positions, -1 when it has no entry
CursorIn(m, q) == IF MapHas(m, q) THEN MapGet(m, q) ELSE -1

\* the step emits an 'error' or 'fileRemoved' event for p
ErrorStepOn(p) ==
  /\ Len(events') > Len(events)
  /\ \E i \in (Len(events) + 1)..Len(events') :
       events'[i].file = p /\ events'[i].type \in {"error", "fileRemoved"}

\* C17: an error on one file does not reach the other tracked files. In a poll
\* tick every tracked file is examined, and what the tick does to a file (its
\* cursor, the read it starts, its events) is what examining that file alone
\* would do, whatever happens to the other files of the tick; a step outside
\* the poller that reports an error for one file leaves the cursor and the
\* events of every other file as they were; and every read of a file that only
\* grows emits the lines of its range in file order.
C17_ErrorIsolation ==
  /\ [][\A q \in Paths :
          /\ (PollTick /\ MapHas(files, q)) =>
               LET alone == PollFile(EngineState(files), q, MapGet(files, q))
               IN  /\ Cursor(q)' = CursorIn(alone.positions, q)
                   /\ ReadsOf(reads', q) = ReadsOf(alone.reads, q)
                   /\ EventsOf(events', q) = EventsOf(alone.events, q)
                   /\ obs'[q] = alone.obs[q]
          /\ (~PollTick /\ \E p \in Paths \ {q} : ErrorStepOn(p)) =>
               /\ Cursor(q)' = Cursor(q)
               /\ EventsOf(events', q) = EventsOf(events, q)
               /\ StreamsOf(streams', q) = StreamsOf(streams, q)]_vars
  /\ [](\A i \in 1..Len(closed) :
          (closed[i].outcome = "end" /\ GrowthOnly(closed[i].file)) =>
            /\ closed[i].consumed
                 = Slice(Content(closed[i].file), closed[i].start, closed[i].last + 1)
            /\ closed[i].emitted = SelectSeq(SplitNL(closed[i].consumed), NonBlank))

\* one tick examined both files, found the first missing and the second grown,
\* and the read it started for the second has emitted its line
C17_Witness ==
  /\ Len(polled) = 2
  /\ obs[polled[1]].kind = "missing"
  /\ obs[polled[2]].kind = "grown"
  /\ ~MapHas(files, polled[1])
  /\ MapHas(files, polled[2])
  /\ \E i \in 1..Len(closed) :
       /\ closed[i].file = polled[2]
       /\ closed[i].outcome = "end"
       /\ closed[i].start = obs[polled[2]].stored
       /\ closed[i].emitted = << <<"x">> >>

\* a stop() / close() has returned and the step is not another such call
AfterStop == stopCalls # <<>> /\ stopCalls' = stopCalls

\* C18: once LogTailer.stop() or close(), LogWatcher.close() or Dashboard.stop()
\* has returned, no delta read is started and no cursor entry is set, changed or
\* removed, whatever the writer does afterwards; the reads in flight may finish.
C18_StopHalts ==
  [][AfterStop =>
       /\ reads' = reads
       /\ files' = files
       /\ filePositions' = filePositions
       /\ Len(streams') <= Len(streams)]_vars

\* the program state the stop operations act on (everything but the histories)
EngineFields ==
  <<files, following, pollInterval, filePositions, watched, watcher, listeners, dashboard>>

\* the step is a call of the stop operation `op`
StopStep(op) ==
  /\ Len(stopCalls') = Len(stopCalls) + 1
  /\ Last(stopCalls').op = op

\* the engine is in a state a stop operation has left (or never left: nothing runs)
IsStopped ==
  /\ ~following /\ ~pollInterval
  /\ ~watcher
  /\ ~dashboard.watcher /\ ~dashboard.wss /\ ~dashboard.server

\* the state is one the operation `op` itself leaves
LeftBy(op) ==
  /\ IsStopped
  /\ op = "close" => files = <<>> /\ ~listeners
  /\ op \in {"watcherClose", "dashboardStop"} =>
       filePositions = <<>> /\ ~listeners /\ dashboard.clients = 0

\* C19: a stop() or close() called on an engine that is already stopped, by
\* whichever stop operation, or was never started, raises no error and changes
\* nothing.
C19_AnyStopIsNoop ==
  /\ [](\A i \in 1..Len(stopCalls) : ~stopCalls[i].threw)
  /\ [][\A op \in {"stop", "close", "watcherClose", "dashboardStop"} :
          (StopStep(op) /\ IsStopped) => UNCHANGED EngineFields]_vars

\* C19 as amended: each stop operation is idempotent - called on an engine in
\* the state that operation leaves (it was already called, or the engine never
\* started) it raises no error and changes nothing - and stop() on a closed
\* LogTailer changes nothing either.
C19_StopIdempotent ==
  /\ [](\A i \in 1..Len(stopCalls) : ~stopCalls[i].threw)
  /\ [][\A op \in {"stop", "close", "watcherClose", "dashboardStop"} :
          (StopStep(op) /\ LeftBy(op)) => UNCHANGED EngineFields]_vars

\* each operation was called a second time in a row, and stop() after close()
C19_Witness ==
  /\ Len(stopCalls) = 2
  /\ LeftBy(stopCalls[2].op)
  /\ \/ stopCalls[1].op = stopCalls[2].op /\ stopCalls[1].op = "dashboardStop"
        /\ Len(events) > 0
     \/ stopCalls[1].op = "close" /\ stopCalls[2].op = "stop" /\ Len(events) > 0

\* C20: when LogTailer.stop(), LogTailer.close() or LogWatcher.close()
\* returns, no cursor entry remains for any file and getFiles() returns
\* the empty list.
C20_StopReleasesState ==
  [][\A op \in {"stop", "close", "watcherClose"} :
       StopStep(op) =>
         /\ files' = <<>>
         /\ filePositions' = <<>>
         /\ GetFiles' = <<>>]_vars

\* the cursor map of the engine the process runs
Positions == IF cmd = "tail" THEN files ELSE filePositions

\* C21: the two drivers are interchangeable. For a tracked file that exists,
\* with the same stored cursor and the same observed size and content, the
\* poller's examination of the file and the notifier's change handler start
\* the same delta read (or none), emit the same events and leave the same
\* stored cursor, whether the file is unchanged, grown or truncated; the
\* lines of a delta read are extracted by the same handlers for both.
C21_DriversAgree ==
  \A p \in Paths :
    (MapHas(Positions, p) /\ Exists(p)) =>
      LET byPoller   == PollFile(EngineState(Positions), p, MapGet(Positions, p))
          byNotifier == FileChange(EngineState(Positions), p)
      IN  /\ CursorIn(byPoller.positions, p) = CursorIn(byNotifier.positions, p)
          /\ byPoller.reads = byNotifier.reads
          /\ byPoller.streams = byNotifier.streams
          /\ LineTexts(byPoller.events, p) = LineTexts(byNotifier.events, p)
          /\ byPoller.events = byNotifier.events

\* each driver has handled a truncation to a non-empty file and the read it
\* started has emitted its line; each has handled a growth
C21_Witness ==
  \E p \in Paths :
    /\ MapHas(Positions, p) /\ Exists(p)
    /\ obs[p].kind = "truncated" /\ obs[p].had /\ obs[p].current > 0
    /\ \E i \in 1..Len(closed) :
         /\ closed[i].file = p /\ closed[i].outcome = "end"
         /\ closed[i].start = 0 /\ closed[i].emitted = << <<"x">> >>

\* C22: processing a truncation never produces an error. In a step in which
\* a driver finds an existing file smaller than its stored cursor, the empty
\* file included, no 'error' event is emitted for the file and the file keeps
\* its cursor entry.
C22_TruncationNoError ==
  [][\A p \in Paths :
       TruncationStep(p) =>
         /\ \A i \in (Len(events) + 1)..Len(events') :
              ~(events'[i].type = "error" /\ events'[i].file = p)
         /\ MapHas(Positions', p)]_vars

\* C23: the lineNumber of the 'line' events of one file is strictly
\* increasing in emission order, over the initial window and all delta reads
\* of a LogTailer.
C23_LineNumberMonotonic ==
  cmd = "tail" =>
    \A i, j \in 1..Len(events) :
      (i < j /\ events[i].type = "line" /\ events[j].type = "line"
         /\ events[i].file = events[j].file)
        => events[i].lineNumber < events[j].lineNumber

\* C26: processing of one file is strictly sequential: at most one delta read
\* of a file is in flight at any moment, so that no tick or notification
\* starts a read of a file while an earlier read of it has not finished.
C26_OneReadInFlight ==
  \A p \in Paths : Len(StreamsOf(streams, p)) <= 1

\* the size of p a driver saw when it last examined it and found it in place
LastObservedSize(p) == obs[p].current

\* C27: the stored cursor of a tracked file equals the file's size as the
\* driver observed it at its most recent examination of the file, and the
\* cursor of a file that stays tracked only decreases in a step that handles a
\* truncation.
C27_CursorIsObservedSize ==
  /\ [](\A p \in Paths :
          (Cursor(p) >= 0 /\ obs[p].kind \in {"unchanged", "grown", "truncated"})
            => Cursor(p) = LastObservedSize(p))
  /\ [][\A p \in Paths :
          (Cursor(p) >= 0 /\ Cursor(p)' >= 0 /\ Cursor(p)' < Cursor(p))
            => TruncationStep(p)]_vars

\* C29: a LogWatcher emits 'line' events only for content appended after it
\* was created: while a watched file only grows, no delta read of it starts
\* before the size the file had when the watcher was created, with or without
\* a cursor entry at the first change notification.
C29_OnlyNewContent ==
  \A p \in Paths :
    (cmd = "watch" /\ GrowthOnly(p)) =>
      \A i \in 1..Len(reads) :
        reads[i].file = p => reads[i].start >= fsHist[p].initialSize

\* the step belongs to a call that adds or removes the file p at runtime:
\* addFile(p), removeFile(p), or a tail(p) call on a LogTailer that is
\* already following
DynamicStep(p) ==
  \/ AddFile(p)
  \/ RemoveFile(p)
  \/ /\ following
     /\ TailBegin(p) \/ WindowOpen(p) \/ WindowData(p) \/ WindowEnd(p) \/ TailResume(p)

\* C24: adding and removing files at runtime does not disturb the others. A
\* step of addFile(p), of removeFile(p), or of a further tail(p, {follow: true})
\* on a LogTailer that is following leaves, for every other file, the cursor
\* entry, the watched status, the notifications held, the reads in flight and
\* the events as they were, and leaves the driver running; after it a change of
\* another watched file is still reported and every tick still examines every
\* tracked file.
C24_DynamicFrame ==
  /\ [][\A p \in Paths : \A q \in Paths \ {p} :
          DynamicStep(p) =>
            /\ Cursor(q)' = Cursor(q)
            /\ (q \in Range(watched')) = (q \in Range(watched))
            /\ pending'[q] = pending[q]
            /\ StreamsOf(streams', q) = StreamsOf(streams, q)
            /\ EventsOf(events', q) = EventsOf(events, q)
            /\ pollInterval => pollInterval'
            /\ watcher' = watcher]_vars
  /\ [][\A q \in Paths :
          /\ (WriterAppendLine(q) /\ cmd = "watch" /\ q \in Range(watched))
               => pending'[q].change
          /\ (PollTick /\ MapHas(files, q)) => q \in Range(polled')]_vars

\* the watcher's first file was removed and added again while its second file
\* was read to its end
C24_Witness ==
  /\ cmd = "watch"
  /\ watched = <<"f2", "f1">>
  /\ calls = 2
  /\ Cursor("f2") = Size("f2")
  /\ \E i \in 1..Len(closed) :
       /\ closed[i].file = "f2" /\ closed[i].outcome = "end"
       /\ closed[i].start = Len(OtherFile)
       /\ closed[i].emitted = << <<"x">> >>

\* "abc\n" was appended at a line boundary of p, a file the writer has only
\* appended to, while a following LogTailer tracked p, and the writer has done
\* nothing to p since
RoundTrip(p) ==
  fsHist[p].marked = "last" /\ fsHist[p].markedFollowed /\ GrowthOnly(p)

\* the 'line' events of p that carry "abc"
MarkedEvents(p) ==
  LET IsMarked(e) == e.type = "line" /\ e.file = p /\ e.line = MarkedLine
  IN  SelectSeq(events, IsMarked)

\* the append was picked up: one event, cursor at the end, no read in flight
\* (and with it no buffered text)
Caught(p) ==
  /\ Len(MarkedEvents(p)) = 1
  /\ Cursor(p) = Size(p)
  /\ StreamsOf(streams, p) = <<>>

Holds(line, source, caseSensitive) ==
  MatchesFrom(source, line, 0, caseSensitive) # {}

\* the answer of a filter with these patterns that keeps no state: the line
\* matches at least one include pattern, or there is none, and no exclude pattern
StatelessAnswer(f, line) ==
  /\ \/ Len(f.includePatterns) = 0
     \/ \E k \in 1..Len(f.includePatterns) :
          Holds(line, f.includePatterns[k].source, f.caseSensitive)
  /\ \A k \in 1..Len(f.excludePatterns) :
       ~Holds(line, f.excludePatterns[k].source, f.caseSensitive)

\* C28: shouldInclude is stateless across calls: every call of a sequence of
\* calls answers as a freshly constructed filter with the same patterns would,
\* true iff the line matches at least one include pattern (or there are none)
\* and matches no exclude pattern.
C28_FilterStateless ==
  \A i \in 1..Len(verdicts) :
    verdicts[i].result = StatelessAnswer(filter, verdicts[i].line)

\* LogTailer.close() or LogWatcher.close() has been called
EngineClosed ==
  \E i \in 1..Len(stopCalls) : stopCalls[i].op \in {"close", "watcherClose"}

\* C30: closing with a read in flight is clean: after LogTailer.close() or
\* LogWatcher.close() the emitter has no listener, so that a 'line' event of a
\* read still in flight reaches no consumer, and no 'error' emitted by such a
\* read is thrown out of the stream callback for want of a listener.
C30_CloseIsClean ==
  EngineClosed => (~listeners /\ uncaught = <<>>)

\* C31: in every reachable state of a LogTailer, isFollowing() is true exactly
\* when a poll timer is set, and at most one poll timer is set, whatever
\* tail(), tailMultiple(), stop() and close() calls were made, with whatever
\* follow flags, and whether or not a registration failed.
C31_FollowingIsOneTimer ==
  /\ following <=> timers > 0
  /\ timers <= 1

\* both tail() calls asked to follow and went through: the second one called
\* startFollowing while the timer of the first was set
C31_Witness ==
  /\ ~opts.multiple
  /\ \A p \in {"f1", "f2"} : reg[p].pc = "done" /\ reg[p].follow
  /\ stopCalls = <<>>
  /\ following /\ timers = 1

====
